---- MODULE Spec2Model ----
(***************************************************************************)
(* State-machine model of assets/js/main.js: the portfolio page's load,    *)
(* filter, project-modal, theme and token handlers.                        *)
(*                                                                         *)
(* Text is modelled as a sequence of tokens (a token is one character, or  *)
(* an atomic piece such as the "#/project/" prefix or a "%2F" escape), so  *)
(* that trim, toLowerCase, includes, split, join and decodeURIComponent    *)
(* are computed and not assumed.                                           *)
(***************************************************************************)
EXTENDS Integers, Sequences, FiniteSets, TLC

\* ------------------------------------------------------------------ text

\* JavaScript null and undefined where a text is expected: texts that no
\* string equals.
Null == <<"<null>">>
Undefined == <<"<undefined>">>

\* An object, an array or nothing (null, undefined, a missing property):
\* the empty sequence is nothing, <<x>> is the value x.
Nothing == <<>>
Some(x) == <<x>>
Value(o) == o[1]

\* Boolean(s) for a text-or-null value: null, undefined and "" are falsy.
Truthy(s) == s # Null /\ s # Undefined /\ s # <<>>

\* a || b on text values.
OrElse(a, b) == IF Truthy(a) THEN a ELSE b

RECURSIVE TrimStart(_)
TrimStart(s) == IF s # <<>> /\ Head(s) = " " THEN TrimStart(Tail(s)) ELSE s

RECURSIVE TrimEnd(_)
TrimEnd(s) ==
  IF s # <<>> /\ s[Len(s)] = " " THEN TrimEnd(SubSeq(s, 1, Len(s) - 1)) ELSE s

\* String.prototype.trim
Trim(s) == TrimEnd(TrimStart(s))

\* The upper-case letters of the model's alphabet and their lower case.
UpperLower ==
  ("A" :> "a") @@ ("B" :> "b") @@ ("C" :> "c") @@ ("D" :> "d")
    @@ ("J" :> "j") @@ ("O" :> "o") @@ ("P" :> "p") @@ ("X" :> "x")

LowerChar(c) == IF c \in DOMAIN UpperLower THEN UpperLower[c] ELSE c

\* String.prototype.toLowerCase
ToLowerCase(s) == [i \in 1..Len(s) |-> LowerChar(s[i])]

\* String.prototype.includes
Includes(hay, q) ==
  \E i \in 0..(Len(hay) - Len(q)) : SubSeq(hay, i + 1, i + Len(q)) = q

\* Array.prototype.join on a list of texts.
RECURSIVE Join(_, _)
Join(list, sep) ==
  IF list = <<>> THEN <<>>
  ELSE IF Len(list) = 1 THEN list[1]
  ELSE list[1] \o sep \o Join(Tail(list), sep)

\* Array.prototype.filter(Boolean) on a list of text-or-null values.
FilterTruthy(list) == SelectSeq(list, Truthy)

\* String.prototype.startsWith("#/project/")
ProjectPrefix == "#/project/"
IsProjectHash(h) == h # <<>> /\ Head(h) = ProjectPrefix

\* decodeURIComponent: a "%2F" escape decodes to "/", a "%" that starts no
\* valid escape makes it throw URIError, every other token is kept.
DecodeThrows(s) == \E i \in 1..Len(s) : s[i] = "%"
DecodeURIComponent(s) == [i \in 1..Len(s) |-> IF s[i] = "%2F" THEN "/" ELSE s[i]]

\* fullName.split("/"): the list of pieces between the "/" tokens.
RECURSIVE Split(_)
Split(s) ==
  IF \A i \in 1..Len(s) : s[i] # "/" THEN <<s>>
  ELSE
    LET k == CHOOSE i \in 1..Len(s) :
               s[i] = "/" /\ \A j \in 1..(i - 1) : s[j] # "/"
    IN <<SubSeq(s, 1, k - 1)>> \o Split(SubSeq(s, k + 1, Len(s)))

\* const [owner, repo] = ...: a missing element is undefined.
Nth(list, n) == IF n <= Len(list) THEN list[n] ELSE Undefined

\* ------------------------------------------------------------------ data

\* const DEFAULT_USERNAME (abbreviated to one token)
DEFAULT_USERNAME == <<"o">>

\* Repository summaries the hosting API can return.  _curated is
\* missing on a fetched object.
HtmlUrl(full) == <<"https://github.com/">> \o full

RepoA ==
  [name |-> <<"a">>, full_name |-> <<"o", "/", "a">>, description |-> <<"c">>,
   language |-> <<"J">>, stargazers_count |-> 3,
   html_url |-> HtmlUrl(<<"o", "/", "a">>), _curated |-> Nothing]

RepoB ==
  [name |-> <<"B">>, full_name |-> <<"o", "/", "B">>, description |-> Null,
   language |-> Null, stargazers_count |-> 0,
   html_url |-> HtmlUrl(<<"o", "/", "B">>), _curated |-> Nothing]

RepoC ==
  [name |-> <<"a">>, full_name |-> <<"p", "/", "a">>, description |-> <<"x">>,
   language |-> <<"P">>, stargazers_count |-> 0,
   html_url |-> HtmlUrl(<<"p", "/", "a">>), _curated |-> Nothing]

\* Bodies of a 200 answer of GET /users/<username>/repos: one page, every
\* repository of that owner at most once, in the order of last update.
RepoLists == {<<>>, <<RepoA, RepoB>>, <<RepoB, RepoA>>, <<RepoC>>}

OwnerOf(r) == Nth(Split(r.full_name), 1)

ListsFor(username) ==
  {l \in RepoLists : \A i \in 1..Len(l) : OwnerOf(l[i]) = username}

\* Answers of the repository-list request: a 200 with a list, a non-OK
\* status, or a rejected fetch.
ReposAnswers(username) ==
  {[kind |-> "ok", data |-> l] : l \in ListsFor(username)}
    \cup {[kind |-> "status"], [kind |-> "network"]}

\* Entries of /projects/projects.json.
EntryA ==
  [repo |-> <<"a">>, description |-> <<"D">>,
   tags |-> Some(<< <<"x">>, <<"y">> >>), short |-> Undefined]

EntryTags ==
  [repo |-> Undefined, description |-> Undefined,
   tags |-> Some(<< <<"c">> >>), short |-> <<"s">>]

EntryShort ==
  [repo |-> <<"B">>, description |-> Undefined, tags |-> Nothing,
   short |-> <<"s">>]

\* Answers of the /projects/projects.json request.
Doc404 == [kind |-> "status"]
DocNetwork == [kind |-> "network"]
DocArray == [kind |-> "array", items |-> <<EntryTags, EntryShort, EntryA>>]
DocObject ==
  [kind |-> "object",
   map |-> (<<"B">> :> Some(EntryTags)) @@ (<<"a">> :> Nothing)]
CuratedAnswers == {Doc404, DocNetwork, DocArray, DocObject}

\* The object {} .
EmptyObject == [k \in {} |-> Nothing]

\* obj[key] on an object keyed by text: nothing for a missing key.
Lookup(obj, key) == IF key \in DOMAIN obj THEN obj[key] ELSE Nothing

\* -------------------------------------------------------- pure functions

StorageKeys == {"GHTOKEN", "theme"}

\* sessionToken(): sessionStorage.getItem("GHTOKEN") || ""
SessionToken(store) == OrElse(store["GHTOKEN"], <<>>)

\* Mutant of SetSessionToken: the token is stored under another key.
SetSessionTokenOtherKey(store, t) ==
  IF Truthy(t) THEN [store EXCEPT !["theme"] = t]
  ELSE [store EXCEPT !["GHTOKEN"] = Null]

\* setSessionToken(t): setItem when t is truthy, removeItem otherwise.
SetSessionToken(store, t) ==
  IF Truthy(t) THEN [store EXCEPT !["GHTOKEN"] = t]
  ELSE [store EXCEPT !["GHTOKEN"] = Null]

\* Mutant of BuildHeaders: the token box is read before the session.
BuildHeadersInputFirst(store, input, acceptPreview) ==
  LET t == OrElse(Trim(input), SessionToken(store))
  IN [Authorization |-> IF Truthy(t) THEN <<"token ">> \o t ELSE Undefined,
      Accept |-> IF acceptPreview THEN <<"mercy-preview">> ELSE Undefined]

\* buildHeaders(acceptPreview), without the constant Content-Type.
BuildHeaders(store, input, acceptPreview) ==
  LET t == OrElse(SessionToken(store), Trim(input))
  IN [Authorization |-> IF Truthy(t) THEN <<"token ">> \o t ELSE Undefined,
      Accept |-> IF acceptPreview THEN <<"mercy-preview">> ELSE Undefined]

\* fetch("/projects/projects.json", {cache: "no-store"}) sends no headers.
NoHeaders == [Authorization |-> Undefined, Accept |-> Undefined]

Request(kind, target, headers) ==
  [kind |-> kind, target |-> target, headers |-> headers]

\* The for loop of loadCurated over an array document: a later item of the
\* same repo overwrites an earlier one, items without repo are skipped.
RECURSIVE KeyByRepo(_, _)
KeyByRepo(items, obj) ==
  IF items = <<>> THEN obj
  ELSE
    LET p == Head(items)
    IN KeyByRepo(Tail(items),
                 IF Truthy(p.repo)
                 THEN [k \in DOMAIN obj \cup {p.repo} |->
                         IF k = p.repo THEN Some(p) ELSE obj[k]]
                 ELSE obj)

\* loadCurated(username): what it resolves to for each answer.
LoadCurated(res) ==
  CASE res.kind = "array" -> KeyByRepo(res.items, EmptyObject)
    [] res.kind = "object" -> res.map
    [] OTHER -> EmptyObject

\* Mutant of MergeOne: the description is overridden without the test of
\* curated[name].description.
MergeOneAlways(r, cur) ==
  LET e == Lookup(cur, r.name)
  IN IF e # Nothing
     THEN [r EXCEPT !._curated = e, !.description = Value(e).description]
     ELSE r

\* fetched.map((r) => ...) of the load handler.
MergeOne(r, cur) ==
  LET e == Lookup(cur, r.name)
  IN IF e # Nothing
     THEN [r EXCEPT !._curated = e,
                    !.description =
                      IF Truthy(Value(e).description)
                      THEN Value(e).description ELSE @]
     ELSE r

MergeCurated(list, cur) == [i \in 1..Len(list) |-> MergeOne(list[i], cur)]

\* Mutant of NewRepos: the merged list is appended to repos.
NewReposAppended(old, list, cur) == old \o MergeCurated(list, cur)

\* repos = fetched.map(...): the new value of repos.
NewRepos(old, list, cur) == MergeCurated(list, cur)

\* r._curated && r._curated.tags: the tags array, or nothing.
CuratedTags(r) ==
  IF r._curated # Nothing THEN Value(r._curated).tags ELSE Nothing

\* The card renderGrid builds for r.
Card(r) ==
  [repo |-> r.full_name, title |-> r.name,
   text |-> OrElse(r.description,
                   OrElse(IF r._curated # Nothing THEN Value(r._curated).short
                          ELSE Undefined, <<"-">>)),
   chips |-> IF CuratedTags(r) # Nothing THEN Value(CuratedTags(r))
             ELSE IF Truthy(r.language) THEN <<r.language>> ELSE <<>>,
   stars |-> r.stargazers_count, href |-> r.html_url]

RenderGrid(list) == [i \in 1..Len(list) |-> Card(list[i])]

\* The languages of the model, in the order Array.prototype.sort gives.
LangOrder == << <<"J">>, <<"P">> >>

\* buildLangOptions(list): the option values after "All languages".
BuildLangOptions(list) ==
  LET Has(l) == \E i \in 1..Len(list) : list[i].language = l
  IN SelectSeq(LangOrder, Has)

\* Mutant of Hay: the haystack is not lower-cased.
HayAsWritten(r) ==
  Join(FilterTruthy(<<r.name, r.description, r.language,
                      IF CuratedTags(r) # Nothing
                      THEN Join(Value(CuratedTags(r)), <<" ">>)
                      ELSE <<>> >>),
       <<" ">>)

\* The haystack of applyFilters.
Hay(r) ==
  ToLowerCase(
    Join(FilterTruthy(<<r.name, r.description, r.language,
                        IF CuratedTags(r) # Nothing
                        THEN Join(Value(CuratedTags(r)), <<" ">>)
                        ELSE <<>> >>),
         <<" ">>))

\* The predicate of repos.filter in applyFilters.
Matches(r, q, lang) ==
  IF Truthy(lang) /\ r.language # lang THEN FALSE
  ELSE IF ~Truthy(q) THEN TRUE
  ELSE Includes(Hay(r), q)

\* applyFilters(): the list handed to renderGrid.
Filtered(list, search, lang) ==
  LET q == ToLowerCase(Trim(search))
      Keep(r) == Matches(r, q, lang)
  IN SelectSeq(list, Keep)

\* repos.find((x) => x.full_name.toLowerCase() === fullName.toLowerCase())
FindRepo(list, fullName) ==
  LET Hit(x) == ToLowerCase(x.full_name) = ToLowerCase(fullName)
      hits == SelectSeq(list, Hit)
  IN IF hits = <<>> THEN Nothing ELSE Some(Head(hits))

\* projectDetail.innerHTML, by what it shows.
DetailEmpty ==
  [kind |-> "empty", title |-> <<>>, text |-> <<>>, chips |-> <<>>,
   body |-> <<>>, href |-> <<>>]

DetailLoading(repo) ==
  [kind |-> "loading", title |-> repo, text |-> <<"Loading details">>,
   chips |-> <<>>, body |-> <<>>, href |-> <<>>]

DetailError ==
  [kind |-> "error", title |-> <<>>,
   text |-> <<"Could not load project details">>, chips |-> <<>>,
   body |-> <<>>, href |-> <<>>]

\* marked.parse followed by DOMPurify.sanitize, or the "No README found."
\* paragraph.
ReadmeHtml(readme) ==
  IF Truthy(readme) THEN <<"<md>">> \o readme ELSE <<"No README found.">>

\* The template of openProject after both requests; reading r.name of an
\* undefined r throws and the catch block shows the error.
DetailOf(r, topics, readme) ==
  IF r = Nothing THEN DetailError
  ELSE
    [kind |-> "details", title |-> Value(r).name,
     text |-> OrElse(Value(r).description, <<>>),
     chips |-> (IF CuratedTags(Value(r)) # Nothing
                THEN Value(CuratedTags(Value(r))) ELSE <<>>) \o topics,
     body |-> ReadmeHtml(readme), href |-> Value(r).html_url]

\* ------------------------------------------------------------------ state

VARIABLES
  hash,                \* location.hash
  modalHidden,         \* projectModal has the class "hidden"
  projectDetail,       \* projectDetail.innerHTML
  modalRan,            \* history: openProject, closeModal or handleHash ran
  opens,               \* openProject calls awaiting their two requests
  repos,               \* let repos
  curated,             \* let curated
  grid,                \* the cards of projectsGrid
  projectsEmptyHidden, \* projectsEmpty has the class "hidden"
  langOptions,         \* option values of langFilter after "All languages"
  langFilter,          \* langFilter.value
  searchInput,         \* searchInput.value
  usernameInput,       \* usernameInput.value
  tokenInput,          \* tokenInput.value
  sessionStorage,      \* sessionStorage, by key
  localStorage,        \* localStorage, by key
  dark,                \* documentElement has the class "dark"
  themeIcon,           \* themeIcon.textContent
  loadBtn,             \* loadBtn.disabled and loadBtn.textContent
  ghLink,              \* ghLink.textContent / href
  loadPc,              \* where the load handler is: idle, curated, repos
  loadUser,            \* const username of the running load handler
  fetched,             \* const fetched of the last load handler, once set
  timer,               \* the setTimeout(handleHash, 800) is pending
  booted,              \* DOMContentLoaded has fired
  alert,               \* the alert this step raised (empty: none)
  issued,              \* the requests this step sent
  tokenEra             \* history: the last token operation still in force

modalVars == <<hash, modalHidden, projectDetail, modalRan, opens>>
listVars == <<repos, grid, projectsEmptyHidden, langOptions, langFilter>>
inputVars == <<searchInput, usernameInput, tokenInput>>
themeVars == <<localStorage, dark, themeIcon>>
loadVars == <<loadBtn, ghLink, loadPc, loadUser, fetched>>
bootVars == <<timer, booted>>

vars ==
  <<hash, modalHidden, projectDetail, modalRan, opens, repos, curated, grid,
    projectsEmptyHidden, langOptions, langFilter, searchInput, usernameInput,
    tokenInput, sessionStorage, localStorage, dark, themeIcon, loadBtn,
    ghLink, loadPc, loadUser, fetched, timer, booted, alert, issued,
    tokenEra>>

\* Most openProject calls the model lets wait for their requests at once
\* (a pending load and a pending timer each reserve one).
MaxOpens == 2

NoAlert == <<>>
EraNone == [kind |-> "none", token |-> <<>>]
EraCleared == [kind |-> "cleared", token |-> <<>>]
EraLoaded(typed) == [kind |-> "loaded", token |-> typed]

ButtonIdle == [disabled |-> FALSE, text |-> "Load projects"]
ButtonLoading == [disabled |-> TRUE, text |-> "Loading"]

\* applyTheme(theme): the class, the icon and the stored theme.
ThemeStore(store, theme) == [store EXCEPT !["theme"] = theme]
ThemeIcon(theme) == IF theme = <<"dark">> THEN "sun" ELSE "moon"

\* The state once the script has run to its end, for a page opened at hash
\* h whose storage held theme storedTheme and token storedToken.  The markup
\* is taken to start with the modal hidden, the grid and the detail pane
\* empty and the Load button enabled.
InitWith(h, storedTheme, storedToken) ==
  LET theme == OrElse(storedTheme, <<"dark">>)
      session == [k \in StorageKeys |->
                    IF k = "GHTOKEN" THEN storedToken ELSE Null]
  IN /\ hash = h
     /\ modalHidden = TRUE
     /\ projectDetail = DetailEmpty
     /\ modalRan = FALSE
     /\ opens = <<>>
     /\ repos = <<>>
     /\ curated = EmptyObject
     /\ grid = <<>>
     /\ projectsEmptyHidden = TRUE
     /\ langOptions = <<>>
     /\ langFilter = <<>>
     /\ searchInput = <<>>
     /\ usernameInput = DEFAULT_USERNAME
     /\ tokenInput = SessionToken(session)
     /\ sessionStorage = session
     /\ localStorage =
          ThemeStore([k \in StorageKeys |-> IF k = "theme" THEN storedTheme
                                            ELSE Null], theme)
     /\ dark = (theme = <<"dark">>)
     /\ themeIcon = ThemeIcon(theme)
     /\ loadBtn = ButtonIdle
     /\ ghLink = DEFAULT_USERNAME
     /\ loadPc = "idle"
     /\ loadUser = <<>>
     /\ fetched = Nothing
     /\ timer = FALSE
     /\ booted = FALSE
     /\ alert = NoAlert
     /\ issued = {}
     /\ tokenEra = EraNone

\* ---------------------------------------------------------------- modal

\* Slots of MaxOpens in use: waiting openProject calls, plus one for a
\* running load and one for the pending timer, which may each call
\* openProject when they finish.
Reserved ==
  Len(opens) + (IF loadPc # "idle" THEN 1 ELSE 0) + (IF timer THEN 1 ELSE 0)

NewOpen(fullName, list) ==
  [fullName |-> fullName, r |-> FindRepo(list, fullName),
   topics |-> Nothing, readme |-> Nothing]

\* The requests openProject(fullName) sends: fetchTopics and fetchReadme.
OpenRequests(fullName) ==
  LET target == <<Nth(Split(fullName), 1), Nth(Split(fullName), 2)>>
  IN {Request("topics", target, BuildHeaders(sessionStorage, tokenInput, TRUE)),
      Request("readme", target, BuildHeaders(sessionStorage, tokenInput, FALSE))}

\* openProject(fullName) up to its await, with list the value of repos.
OpenProject(fullName, list) ==
  /\ hash' = <<ProjectPrefix>> \o fullName
  /\ modalHidden' = FALSE
  /\ projectDetail' = DetailLoading(Nth(Split(fullName), 2))
  /\ modalRan' = TRUE
  /\ opens' = Append(opens, NewOpen(fullName, list))
  /\ issued' = OpenRequests(fullName)

\* closeModal(), with h the value of location.hash.
CloseModal(h) ==
  /\ modalHidden' = TRUE
  /\ projectDetail' = DetailEmpty
  /\ hash' = IF IsProjectHash(h) THEN <<>> ELSE h
  /\ modalRan' = TRUE
  /\ opens' = opens
  /\ issued' = {}

\* handleHash() throws when decodeURIComponent does.
HandleHashThrows(h) == IsProjectHash(h) /\ DecodeThrows(Tail(h))

\* handleHash(), with h the value of location.hash and list that of repos.
HandleHash(h, list) ==
  IF IsProjectHash(h)
  THEN IF DecodeThrows(Tail(h))
       THEN /\ hash' = h
            /\ modalRan' = TRUE
            /\ issued' = {}
            /\ UNCHANGED <<modalHidden, projectDetail, opens>>
       ELSE OpenProject(DecodeURIComponent(Tail(h)), list)
  ELSE CloseModal(h)

\* A click on the project link of card i of the grid.
CardClick(i) ==
  /\ booted
  /\ i \in 1..Len(grid)
  /\ Reserved < MaxOpens
  /\ OpenProject(grid[i].repo, repos)
  /\ alert' = NoAlert
  /\ UNCHANGED <<listVars, curated, inputVars, sessionStorage, themeVars,
                 loadVars, bootVars, tokenEra>>

\* A click on the close button of the modal.
CloseClick ==
  /\ booted
  /\ ~modalHidden
  /\ CloseModal(hash)
  /\ alert' = NoAlert
  /\ UNCHANGED <<listVars, curated, inputVars, sessionStorage, themeVars,
                 loadVars, bootVars, tokenEra>>

\* A click on an element of the modal that carries data-close.
BackdropClick ==
  /\ booted
  /\ ~modalHidden
  /\ CloseModal(hash)
  /\ alert' = NoAlert
  /\ UNCHANGED <<listVars, curated, inputVars, sessionStorage, themeVars,
                 loadVars, bootVars, tokenEra>>

\* The user navigates to hash h: the hashchange listener runs handleHash.
HashChange(h) ==
  /\ booted
  /\ h # hash
  /\ IsProjectHash(h) => Reserved < MaxOpens
  /\ HandleHash(h, repos)
  /\ alert' = NoAlert
  /\ UNCHANGED <<listVars, curated, inputVars, sessionStorage, themeVars,
                 loadVars, bootVars, tokenEra>>

\* The 800 ms timer of the DOMContentLoaded handler fires.
TimerFires ==
  /\ timer
  /\ timer' = FALSE
  /\ HandleHash(hash, repos)
  /\ alert' = NoAlert
  /\ UNCHANGED <<listVars, curated, inputVars, sessionStorage, themeVars,
                 loadVars, booted, tokenEra>>

\* fetchTopics: json.names || [] on a 200, [] otherwise (also on a
\* rejected fetch, by the .catch of openProject).
TopicsAnswers == {[kind |-> "ok", names |-> << <<"t">> >>], [kind |-> "status"]}
FetchTopics(ans) == IF ans.kind = "ok" THEN ans.names ELSE <<>>

\* fetchReadme: the decoded content on a 200 that has one, null otherwise.
ReadmeAnswers ==
  {[kind |-> "ok", content |-> <<"R">>], [kind |-> "status"]}
FetchReadme(ans) ==
  IF ans.kind = "ok" /\ Truthy(ans.content) THEN ans.content ELSE Null

RemoveAt(seq, i) == SubSeq(seq, 1, i - 1) \o SubSeq(seq, i + 1, Len(seq))

\* What innerHTML becomes when the Promise.all of an openProject call
\* resolves.
DetailAfter(o) == DetailOf(o.r, Value(o.topics), Value(o.readme))

\* The rest of openProject call i once o holds both results.
Settle(i, o) ==
  IF o.topics # Nothing /\ o.readme # Nothing
  THEN /\ projectDetail' = DetailAfter(o)
       /\ opens' = RemoveAt(opens, i)
  ELSE /\ projectDetail' = projectDetail
       /\ opens' = [opens EXCEPT ![i] = o]

\* The topics request of waiting call i is answered.
TopicsResponse(i, ans) ==
  /\ i \in 1..Len(opens)
  /\ opens[i].topics = Nothing
  /\ Settle(i, [opens[i] EXCEPT !.topics = Some(FetchTopics(ans))])
  /\ alert' = NoAlert
  /\ issued' = {}
  /\ UNCHANGED <<hash, modalHidden, modalRan, listVars, curated, inputVars,
                 sessionStorage, themeVars, loadVars, bootVars, tokenEra>>

\* The README request of waiting call i is answered.
ReadmeResponse(i, ans) ==
  /\ i \in 1..Len(opens)
  /\ opens[i].readme = Nothing
  /\ Settle(i, [opens[i] EXCEPT !.readme = Some(FetchReadme(ans))])
  /\ alert' = NoAlert
  /\ issued' = {}
  /\ UNCHANGED <<hash, modalHidden, modalRan, listVars, curated, inputVars,
                 sessionStorage, themeVars, loadVars, bootVars, tokenEra>>

\* ------------------------------------------------------- filter and load

\* applyFilters() followed by renderGrid(filtered), for the given values of
\* repos, searchInput.value and langFilter.value.
ApplyFilters(list, search, lang) ==
  /\ grid' = RenderGrid(Filtered(list, search, lang))
  /\ projectsEmptyHidden' = (Filtered(list, search, lang) # <<>>)

\* langFilter.value once buildLangOptions has replaced the options: the
\* first option, "All languages", is the selected one.
LangAfterRebuild(old) == <<>>

\* An input event on the search box, which now holds v.
TypeSearch(v) ==
  /\ booted
  /\ v # searchInput
  /\ searchInput' = v
  /\ ApplyFilters(repos, v, langFilter)
  /\ alert' = NoAlert
  /\ issued' = {}
  /\ UNCHANGED <<modalVars, repos, curated, langOptions, langFilter,
                 usernameInput, tokenInput, sessionStorage, themeVars,
                 loadVars, bootVars, tokenEra>>

\* A change event on the language select, which now holds l.
ChangeLang(l) ==
  /\ booted
  /\ l # langFilter
  /\ l = <<>> \/ \E i \in 1..Len(langOptions) : langOptions[i] = l
  /\ langFilter' = l
  /\ ApplyFilters(repos, searchInput, l)
  /\ alert' = NoAlert
  /\ issued' = {}
  /\ UNCHANGED <<modalVars, repos, curated, langOptions, inputVars,
                 sessionStorage, themeVars, loadVars, bootVars, tokenEra>>

\* The user edits the username box, which now holds v (no listener).
TypeUsername(v) ==
  /\ booted
  /\ v # usernameInput
  /\ usernameInput' = v
  /\ alert' = NoAlert
  /\ issued' = {}
  /\ UNCHANGED <<modalVars, listVars, curated, searchInput, tokenInput,
                 sessionStorage, themeVars, loadVars, bootVars, tokenEra>>

\* The click listener of loadBtn up to its first await.
StartLoad ==
  LET username == OrElse(Trim(usernameInput), DEFAULT_USERNAME)
      token == Trim(tokenInput)
  IN /\ sessionStorage' = IF Truthy(token)
                          THEN SetSessionToken(sessionStorage, token)
                          ELSE sessionStorage
     /\ ghLink' = username
     /\ loadBtn' = ButtonLoading
     /\ loadPc' = "curated"
     /\ loadUser' = username
     /\ fetched' = Nothing
     /\ issued' = {Request("curated", <<"/projects/projects.json">>, NoHeaders)}
     /\ alert' = NoAlert
     /\ tokenEra' = IF Truthy(token) THEN EraLoaded(tokenInput)
                    ELSE IF tokenEra.kind = "loaded" THEN EraNone
                    ELSE tokenEra

\* DOMContentLoaded: loadBtn.click() and setTimeout(handleHash, 800).
Boot ==
  /\ ~booted
  /\ booted' = TRUE
  /\ timer' = TRUE
  /\ StartLoad
  /\ UNCHANGED <<modalVars, listVars, curated, inputVars, themeVars>>

\* A click on the Load button; a disabled button dispatches no click.
LoadClick ==
  /\ booted
  /\ ~loadBtn.disabled
  /\ Reserved < MaxOpens
  /\ StartLoad
  /\ UNCHANGED <<modalVars, listVars, curated, inputVars, themeVars, bootVars>>

\* The /projects/projects.json request is answered: curated is assigned and
\* fetchRepos sends its request.
CuratedResponse(doc) ==
  /\ loadPc = "curated"
  /\ curated' = LoadCurated(doc)
  /\ loadPc' = "repos"
  /\ issued' = {Request("repos", loadUser,
                        BuildHeaders(sessionStorage, tokenInput, FALSE))}
  /\ alert' = NoAlert
  /\ UNCHANGED <<modalVars, listVars, inputVars, sessionStorage, themeVars,
                 loadBtn, ghLink, loadUser, fetched, bootVars, tokenEra>>

LoadErrorAlert == <<"Error loading repos">>

\* Mutant of LoadFinally: the button is not restored.
LoadFinallySkipped == ButtonLoading

\* What the finally block leaves of the button.
LoadFinally == ButtonIdle

\* fetchRepos throws: the catch block alerts, the finally block runs.
ReposFailure(ans) ==
  /\ loadPc = "repos"
  /\ ans \in ReposAnswers(loadUser)
  /\ ans.kind # "ok"
  /\ alert' = LoadErrorAlert
  /\ loadBtn' = LoadFinally
  /\ loadPc' = "idle"
  /\ issued' = {}
  /\ UNCHANGED <<modalVars, listVars, curated, inputVars, sessionStorage,
                 themeVars, ghLink, loadUser, fetched, bootVars, tokenEra>>

\* fetchRepos returns ans.data: merge, buildLangOptions, applyFilters,
\* handleHash (whose throw the catch block reports), finally.
ReposSuccess(ans) ==
  /\ loadPc = "repos"
  /\ ans \in ReposAnswers(loadUser)
  /\ ans.kind = "ok"
  /\ fetched' = Some(ans.data)
  /\ repos' = NewRepos(repos, ans.data, curated)
  /\ langOptions' = BuildLangOptions(repos')
  /\ langFilter' = LangAfterRebuild(langFilter)
  /\ ApplyFilters(repos', searchInput, langFilter')
  /\ HandleHash(hash, repos')
  /\ alert' = IF HandleHashThrows(hash) THEN LoadErrorAlert ELSE NoAlert
  /\ loadBtn' = LoadFinally
  /\ loadPc' = "idle"
  /\ UNCHANGED <<curated, inputVars, sessionStorage, themeVars, ghLink,
                 loadUser, bootVars, tokenEra>>

\* --------------------------------------------------------- theme, token

\* A click on the theme toggle.
ToggleTheme ==
  LET next == IF dark THEN <<"light">> ELSE <<"dark">>
  IN /\ booted
     /\ dark' = (next = <<"dark">>)
     /\ themeIcon' = ThemeIcon(next)
     /\ localStorage' = ThemeStore(localStorage, next)
     /\ alert' = NoAlert
     /\ issued' = {}
     /\ UNCHANGED <<modalVars, listVars, curated, inputVars, sessionStorage,
                    loadVars, bootVars, tokenEra>>

\* The user edits the token box, which now holds v (no listener).
TypeToken(v) ==
  /\ booted
  /\ v # tokenInput
  /\ tokenInput' = v
  /\ tokenEra' = IF tokenEra.kind = "cleared" /\ Truthy(Trim(v))
                 THEN EraNone ELSE tokenEra
  /\ alert' = NoAlert
  /\ issued' = {}
  /\ UNCHANGED <<modalVars, listVars, curated, searchInput, usernameInput,
                 sessionStorage, themeVars, loadVars, bootVars>>

\* A click on the Clear token button.
ClearToken ==
  /\ booted
  /\ sessionStorage' = SetSessionToken(sessionStorage, <<>>)
  /\ tokenInput' = <<>>
  /\ alert' = <<"Token cleared from this session.">>
  /\ tokenEra' = EraCleared
  /\ issued' = {}
  /\ UNCHANGED <<modalVars, listVars, curated, searchInput, usernameInput,
                 themeVars, loadVars, bootVars>>

\* ------------------------------------------------------- specifications

\* What the user may type or navigate to.
SearchTexts == {<<>>, <<"A">>, <<" ", "a", " ", "C", " ">>, <<"b">>}
UsernameTexts == {DEFAULT_USERNAME, <<>>, <<" ", "p">>}
TokenTexts == {<<>>, <<" ">>, <<" ", "t1">>, <<"t2">>}
Languages == {<<>>, <<"J">>, <<"P">>}
Hashes ==
  {<<>>, <<"#about">>, <<ProjectPrefix, "o", "/", "a">>,
   <<ProjectPrefix, "O", "%2F", "b">>, <<ProjectPrefix, "%">>}
StoredThemes == {Null, <<"light">>}
StoredTokens == {Null, <<"t1">>}

Curated == \E doc \in CuratedAnswers : CuratedResponse(doc)
ReposFail == \E ans \in ReposAnswers(loadUser) : ReposFailure(ans)
ReposOk == \E ans \in ReposAnswers(loadUser) : ReposSuccess(ans)
Topics == \E i \in 1..Len(opens), ans \in TopicsAnswers : TopicsResponse(i, ans)
Readme == \E i \in 1..Len(opens), ans \in ReadmeAnswers : ReadmeResponse(i, ans)
\* The same answers, fewer of them, for the specifications whose claims do
\* not turn on what is answered.
CuratedSome == \E doc \in {Doc404, DocArray} : CuratedResponse(doc)
CuratedNone == \E doc \in {Doc404} : CuratedResponse(doc)
ReposStatus == \E ans \in {[kind |-> "status"]} : ReposFailure(ans)
ReposBoth ==
  \E ans \in {[kind |-> "ok", data |-> <<RepoA, RepoB>>]} : ReposSuccess(ans)
TopicsStatus ==
  \E i \in 1..Len(opens) : TopicsResponse(i, [kind |-> "status"])
ReadmeStatus ==
  \E i \in 1..Len(opens) : ReadmeResponse(i, [kind |-> "status"])

Search == \E v \in SearchTexts : TypeSearch(v)
Lang == \E l \in Languages : ChangeLang(l)
Username == \E v \in UsernameTexts : TypeUsername(v)
Token == \E v \in TokenTexts : TypeToken(v)
ClickCard == \E i \in 1..Len(grid) : CardClick(i)
Navigate == \E h \in Hashes : HashChange(h)

\* The load handler with the username box: merge and key claims.
InitLoad == InitWith(<<>>, Null, Null)
NextLoad ==
  \/ Boot \/ LoadClick \/ Curated \/ ReposFail \/ ReposOk \/ Username
  \/ TimerFires
SpecLoad == InitLoad /\ [][NextLoad]_vars

C7_UniqueFullNames ==
  \A i, j \in 1..Len(repos) :
    repos[i].full_name = repos[j].full_name => i = j

\* A load has put two merged repositories into repos.
C7_Witness ==
  /\ fetched # Nothing
  /\ loadPc = "idle"
  /\ Len(repos) = 2
  /\ repos[1]._curated # Nothing

\* The filter listeners with the load handler: the grid claim.
NextFilter ==
  \/ Boot \/ LoadClick \/ Curated \/ ReposFail \/ ReposOk \/ Username
  \/ TimerFires \/ Search \/ Lang
SpecFilter == InitLoad /\ [][NextFilter]_vars

\* The repositories the cards of the grid stand for, in grid order.
GridRepos == [i \in 1..Len(grid) |-> grid[i].repo]

FullNames(list) == [i \in 1..Len(list) |-> list[i].full_name]

LanguageSelected(r) == langFilter = <<>> \/ r.language = langFilter

\* The curated tags of r as one text, tags separated by a space.
TagsText(r) ==
  IF r._curated # Nothing /\ Value(r._curated).tags # Nothing
  THEN Join(Value(Value(r._curated).tags), <<" ">>)
  ELSE <<>>

ContainsQuery(text) ==
  Truthy(text) /\ Includes(ToLowerCase(text), ToLowerCase(Trim(searchInput)))

\* r's name, description, language or curated tags contains the query.
SomeFieldContains(r) ==
  \/ ContainsQuery(r.name)
  \/ ContainsQuery(r.description)
  \/ ContainsQuery(r.language)
  \/ ContainsQuery(TagsText(r))

\* C2 as stated: the cards are the elements of repos, in order, of the
\* selected language (any when none is selected) of which, when the trimmed
\* search text is not empty, one of name, description, language and curated
\* tags contains it, case-insensitively.
C2_GridIsFieldFilter ==
  LET Shown(r) ==
        LanguageSelected(r) /\ (Trim(searchInput) = <<>> \/ SomeFieldContains(r))
  IN GridRepos = FullNames(SelectSeq(repos, Shown))

\* The non-empty ones of name, description, language and curated tags, in
\* that order, joined by single spaces.
RECURSIVE SpaceJoined(_)
SpaceJoined(texts) ==
  IF texts = <<>> THEN <<>>
  ELSE IF ~Truthy(Head(texts)) THEN SpaceJoined(Tail(texts))
  ELSE IF SpaceJoined(Tail(texts)) = <<>> THEN Head(texts)
  ELSE Head(texts) \o <<" ">> \o SpaceJoined(Tail(texts))

\* C2 as amended: ... the text made of name, description, language and
\* curated tags (the non-empty ones, joined by single spaces) contains the
\* trimmed search text, case-insensitively.
C2_GridIsJoinedFilter ==
  LET Shown(r) ==
        /\ LanguageSelected(r)
        /\ \/ Trim(searchInput) = <<>>
           \/ ContainsQuery(
                SpaceJoined(<<r.name, r.description, r.language, TagsText(r)>>))
  IN GridRepos = FullNames(SelectSeq(repos, Shown))

\* A search that needs the trim and the lower-casing shows some cards and
\* hides others while a language is selected.
C2_Witness ==
  /\ fetched # Nothing
  /\ searchInput = <<" ", "a", " ", "C", " ">>
  /\ langFilter # <<>>
  /\ Len(repos) = 2
  /\ Len(grid) = 1

\* The modal with the load handler: the hash claims.
InitModal == \E h \in Hashes : InitWith(h, Null, Null)
NextModal ==
  \/ Boot \/ LoadClick \/ CuratedSome \/ ReposFail \/ ReposOk \/ TimerFires
  \/ ClickCard \/ CloseClick \/ BackdropClick \/ Navigate \/ TopicsStatus
  \/ Readme
SpecModal == InitModal /\ [][NextModal]_vars

\* No handler is pending or part-way: the page has booted, no load is
\* running, the timer has fired and no openProject call awaits a request.
Quiet == booted /\ loadPc = "idle" /\ ~timer /\ opens = <<>>

\* C3: whenever no handler is pending or part-way and openProject,
\* closeModal or handleHash has run, the modal is visible exactly when the
\* hash starts with "#/project/".
C3_ModalFollowsHash ==
  (Quiet /\ modalRan) => (~modalHidden <=> IsProjectHash(hash))

\* The full name a project hash names, lower-cased.
HashProject == ToLowerCase(DecodeURIComponent(Tail(hash)))

\* The modal shows the details of the repository the hash names.
ShowsHashProject ==
  /\ ~modalHidden
  /\ projectDetail.kind = "details"
  /\ ToLowerCase(projectDetail.href) = ToLowerCase(HtmlUrl(HashProject))

\* C9: once every request has been answered, a modal left open on a project
\* shows the project the hash names, the one opened last, whatever the
\* order of the answers.
C9_LastOpenWins ==
  (opens = <<>> /\ ~modalHidden /\ IsProjectHash(hash)
     /\ ~DecodeThrows(Tail(hash)) /\ projectDetail.kind = "details")
    => ShowsHashProject

\* A deep link: the page is opened at the hash of a repository the list
\* request returns, and the user does nothing.
DeepLinked == <<"o", "/", "a">>
InitDeepLink == InitWith(<<ProjectPrefix>> \o DeepLinked, Null, Null)
ReposOkWithLinked ==
  \E ans \in ReposAnswers(loadUser) :
    /\ ans.kind = "ok"
    /\ \E i \in 1..Len(ans.data) : ans.data[i].full_name = DeepLinked
    /\ ReposSuccess(ans)
NextDeepLink ==
  \/ Boot \/ Curated \/ ReposOkWithLinked \/ TimerFires \/ Topics \/ Readme
SpecDeepLink == InitDeepLink /\ [][NextDeepLink]_vars

\* C4: after a deep link, once every request and the timer have completed,
\* the modal is visible and shows the details of the linked repository.
C4_DeepLinkShowsDetails ==
  Quiet =>
    /\ ShowsHashProject
    /\ HashProject = ToLowerCase(DeepLinked)
    /\ projectDetail.title = <<"a">>

\* The token and theme handlers with everything that sends requests: the
\* storage and token claims.
InitToken ==
  \E th \in StoredThemes, tk \in StoredTokens : InitWith(<<>>, th, tk)
NextToken ==
  \/ Boot \/ LoadClick \/ CuratedNone \/ ReposStatus \/ ReposBoth
  \/ TimerFires \/ ClickCard \/ CloseClick \/ TopicsStatus \/ ReadmeStatus
  \/ ToggleTheme \/ Token \/ ClearToken
SpecToken == InitToken /\ [][NextToken]_vars

SessionOnlyToken ==
  \A k \in StorageKeys : sessionStorage'[k] # sessionStorage[k] => k = "GHTOKEN"

\* C5 as stated: the only storage entry ever written or removed is the
\* sessionStorage key GHTOKEN; no localStorage entry is written.
C5_OnlySessionToken ==
  [][SessionOnlyToken /\ localStorage' = localStorage]_vars

\* C5 as amended: the only storage entries ever written or removed are the
\* sessionStorage key GHTOKEN and the localStorage key theme.
C5_OnlyTokenAndTheme ==
  [][/\ SessionOnlyToken
     /\ \A k \in StorageKeys : localStorage'[k] # localStorage[k] => k = "theme"
    ]_vars

\* A load has stored a typed token and the theme has been toggled to light.
C5_Witness ==
  /\ tokenEra.kind = "loaded"
  /\ sessionStorage["GHTOKEN"] = <<"t2">>
  /\ localStorage["theme"] = <<"light">>
  /\ ~dark

ApiRequests == {r \in issued : r.kind \in {"repos", "topics", "readme"}}

\* C6: right after Clear token the session holds no GHTOKEN and the token
\* box is empty; from then until a non-blank token is typed no repository
\* list, topics or README request carries an Authorization header; and from
\* a Load click with the non-blank token T in the box until the next Clear
\* or Load each such request carries "token T" (T without the blanks around
\* it).
C6_TokenOnRequests ==
  /\ alert = <<"Token cleared from this session.">> =>
       sessionStorage["GHTOKEN"] = Null /\ tokenInput = <<>>
  /\ \A r \in ApiRequests :
       /\ tokenEra.kind = "cleared" => r.headers.Authorization = Undefined
       /\ tokenEra.kind = "loaded" =>
            r.headers.Authorization = <<"token ">> \o Trim(tokenEra.token)

\* A request leaves with the token of the last Load while the box holds
\* another one.
C6_Witness ==
  /\ tokenEra = EraLoaded(<<" ", "t1">>)
  /\ tokenInput = <<"t2">>
  /\ \E r \in ApiRequests :
       r.kind = "topics" /\ r.headers.Authorization = <<"token ", "t1">>

\* The load handler under the scheduling the browser gives it: a request
\* that was sent is answered or fails, so each await of the handler resumes.
InitLoadFair ==
  \E h \in {<<>>, <<ProjectPrefix, "%">>} : InitWith(h, Null, Null)
ReposAnswered == ReposFail \/ ReposOk
NextLoadFair ==
  \/ Boot \/ LoadClick \/ Curated \/ ReposAnswered \/ TimerFires \/ Search
SpecLoadFair ==
  /\ InitLoadFair
  /\ [][NextLoadFair]_vars
  /\ WF_vars(Curated)
  /\ WF_vars(ReposAnswered)

LoadRunning == loadPc # "idle"

\* The step in which a running load handler ends.
LoadEnds == LoadRunning /\ loadPc' = "idle"

\* A step of the load handler that is not its end.
LoadGoesOn == loadPc' # loadPc /\ loadPc' # "idle"

\* C8: the Load button is disabled as long as a load runs; every load ends,
\* and ends with the button enabled and labelled "Load projects", whether
\* fetchRepos succeeds or fails; a load whose fetchRepos fails raises an
\* alert and no step of it changes repos or the grid.
C8_LoadAlwaysEnds ==
  /\ [](LoadRunning => loadBtn.disabled)
  /\ LoadRunning ~> (~LoadRunning /\ loadBtn = ButtonIdle)
  /\ [][LoadEnds => loadBtn' = ButtonIdle]_vars
  /\ [][LoadGoesOn => repos' = repos /\ grid' = grid]_vars
  /\ [][(LoadEnds /\ fetched' = Nothing) =>
          (alert' = LoadErrorAlert /\ repos' = repos /\ grid' = grid)]_vars

\* A failed load has ended after an earlier one had filled the grid.
C8_Witness ==
  /\ ~LoadRunning
  /\ alert = LoadErrorAlert
  /\ fetched = Nothing
  /\ loadBtn = ButtonIdle
  /\ grid # <<>>

====
